---------------------------- MODULE Spec2Model ----------------------------
(***************************************************************************)
(* A model of nnstreamer-edge-common.c: the metadata list (set, get, copy, *)
(* serialize, deserialize), the edge data handle and the edge event        *)
(* handle.                                                                 *)
(*                                                                         *)
(* C strings are sequences of character codes without the terminating NUL; *)
(* a NULL string is the one-element sequence <<0>>, which no C string can  *)
(* be.  Memory blocks are sequences of bytes.  An allocation that fails is *)
(* an input of the call: oom is the set of the ordinals of the allocations *)
(* of one API call that return NULL.                                       *)
(***************************************************************************)
EXTENDS Integers, Sequences, FiniteSets, TLC

(***************************************************************************)
(* Bounds of the model.                                                    *)
(***************************************************************************)
\* The most nodes a metadata list is let to grow to (the code has no limit).
MaxNodes == 2
\* The most allocations of one API call that are let to fail.
MaxOom == 1
\* NNS_EDGE_DATA_LIMIT, the size of the data array of a handle (16 in the
\* header), scaled down.
NNS_EDGE_DATA_LIMIT == 2

(***************************************************************************)
(* Program constants.                                                      *)
(***************************************************************************)
\* sizeof (unsigned int), the width of the serialized pair count.
SizeofUInt == 4

NNS_EDGE_ERROR_NONE == "NONE"
NNS_EDGE_ERROR_INVALID_PARAMETER == "INVALID_PARAMETER"
NNS_EDGE_ERROR_OUT_OF_MEMORY == "OUT_OF_MEMORY"
\* Not a return value of the code: the process died on an unmapped read.
CRASH == "CRASH"

NULL_STR == <<0>>
NullMeta == [list |-> <<>>, list_len |-> 0]

(***************************************************************************)
(* Strings.                                                                *)
(***************************************************************************)
\* STR_IS_VALID (s): ((s) && (s)[0] != '\0')
STR_IS_VALID(s) == s # NULL_STR /\ Len(s) > 0

\* tolower () on the ASCII letters
ToLower(c) == IF c >= 65 /\ c <= 90 THEN c + 32 ELSE c

\* strcasecmp (a, b) == 0
StrCaseEq(a, b) ==
  /\ Len(a) = Len(b)
  /\ \A i \in 1..Len(a) : ToLower(a[i]) = ToLower(b[i])

(***************************************************************************)
(* The metadata list: list is the linked list from its head, list_len the  *)
(* recorded length.  Every operator returns the error code, the list       *)
(* after the call, n (the allocations asked for so far in this API call)   *)
(* and the blocks it allocated (m) and released (f).                       *)
(***************************************************************************)
\* nns_edge_metadata_find comparing with strcmp () instead of strcasecmp ().
Mut_find_strcmp(meta, key) ==
  IF ~STR_IS_VALID(key) THEN 0
  ELSE LET hit == {i \in 1..Len(meta.list) : key = meta.list[i].key}
       IN IF hit = {} THEN 0 ELSE CHOOSE i \in hit : \A j \in hit : i <= j

\* nns_edge_metadata_find: the index of the first node whose key matches, 0 for NULL
nns_edge_metadata_find(meta, key) ==
  IF ~STR_IS_VALID(key) THEN 0
  ELSE LET hit == {i \in 1..Len(meta.list) : StrCaseEq(key, meta.list[i].key)}
       IN IF hit = {} THEN 0 ELSE CHOOSE i \in hit : \A j \in hit : i <= j

nns_edge_metadata_init == NullMeta

\* A free that unlinks the list and leaves list_len as it was.
Mut_free_keeplen(meta) ==
  [ret |-> NNS_EDGE_ERROR_NONE, meta |-> [list |-> <<>>, list_len |-> meta.list_len],
   f |-> 3 * Len(meta.list)]

\* nns_edge_metadata_free: unlinks the list and frees key, value and node of each
nns_edge_metadata_free(meta) ==
  [ret |-> NNS_EDGE_ERROR_NONE, meta |-> [list |-> <<>>, list_len |-> 0],
   f |-> 3 * Len(meta.list)]

\* A set that releases the old value before it looks at the copy of the new one.
Mut_set_freefirst(meta, key, value, oom, n) ==
  IF ~STR_IS_VALID(key) \/ ~STR_IS_VALID(value)
  THEN [ret |-> NNS_EDGE_ERROR_INVALID_PARAMETER, meta |-> meta, n |-> n, m |-> 0, f |-> 0]
  ELSE LET idx == nns_edge_metadata_find(meta, key) IN
    IF idx # 0
    THEN IF (n + 1) \in oom
         THEN [ret |-> NNS_EDGE_ERROR_OUT_OF_MEMORY,
               meta |-> [meta EXCEPT !.list[idx].value = NULL_STR],
               n |-> n + 1, m |-> 0, f |-> 1]
         ELSE [ret |-> NNS_EDGE_ERROR_NONE,
               meta |-> [meta EXCEPT !.list[idx].value = value],
               n |-> n + 1, m |-> 1, f |-> 1]
    ELSE IF (n + 1) \in oom \/ (n + 2) \in oom \/ (n + 3) \in oom
         THEN [ret |-> NNS_EDGE_ERROR_OUT_OF_MEMORY, meta |-> meta, n |-> n + 3,
               m |-> 0, f |-> 0]
         ELSE [ret |-> NNS_EDGE_ERROR_NONE,
               meta |-> [list |-> <<[key |-> key, value |-> value]>> \o meta.list,
                         list_len |-> meta.list_len + 1],
               n |-> n + 3, m |-> 3, f |-> 0]

\* A set that links the new node before it looks at the two copies.
Mut_set_linkfirst(meta, key, value, oom, n) ==
  IF ~STR_IS_VALID(key) \/ ~STR_IS_VALID(value)
  THEN [ret |-> NNS_EDGE_ERROR_INVALID_PARAMETER, meta |-> meta, n |-> n, m |-> 0, f |-> 0]
  ELSE IF (n + 1) \in oom
  THEN [ret |-> NNS_EDGE_ERROR_OUT_OF_MEMORY, meta |-> meta, n |-> n + 1, m |-> 0, f |-> 0]
  ELSE [ret |-> IF (n + 2) \in oom \/ (n + 3) \in oom
                THEN NNS_EDGE_ERROR_OUT_OF_MEMORY ELSE NNS_EDGE_ERROR_NONE,
        meta |-> [list |-> <<[key |-> key, value |-> value]>> \o meta.list,
                  list_len |-> meta.list_len + 1],
        n |-> n + 3, m |-> 3, f |-> 0]

nns_edge_metadata_set(meta, key, value, oom, n) ==
  IF ~STR_IS_VALID(key) \/ ~STR_IS_VALID(value)
  THEN [ret |-> NNS_EDGE_ERROR_INVALID_PARAMETER, meta |-> meta, n |-> n, m |-> 0, f |-> 0]
  ELSE LET idx == nns_edge_metadata_find(meta, key) IN
    IF idx # 0
    THEN \* replace the old value: val = strdup (value)
      IF (n + 1) \in oom
      THEN [ret |-> NNS_EDGE_ERROR_OUT_OF_MEMORY, meta |-> meta, n |-> n + 1, m |-> 0, f |-> 0]
      ELSE [ret |-> NNS_EDGE_ERROR_NONE,
            meta |-> [meta EXCEPT !.list[idx].value = value],
            n |-> n + 1, m |-> 1, f |-> 1]
    ELSE \* node = calloc (...)
      IF (n + 1) \in oom
      THEN [ret |-> NNS_EDGE_ERROR_OUT_OF_MEMORY, meta |-> meta, n |-> n + 1, m |-> 0, f |-> 0]
      ELSE LET keyOk == (n + 2) \notin oom
               valOk == (n + 3) \notin oom
               got == 1 + (IF keyOk THEN 1 ELSE 0) + (IF valOk THEN 1 ELSE 0)
           IN IF ~keyOk \/ ~valOk
              THEN [ret |-> NNS_EDGE_ERROR_OUT_OF_MEMORY, meta |-> meta, n |-> n + 3,
                    m |-> got, f |-> got]
              ELSE \* prepend the new node
                   [ret |-> NNS_EDGE_ERROR_NONE,
                    meta |-> [list |-> <<[key |-> key, value |-> value]>> \o meta.list,
                              list_len |-> meta.list_len + 1],
                    n |-> n + 3, m |-> 3, f |-> 0]

\* nns_edge_metadata_get: value is the caller's char ** (present or NULL)
nns_edge_metadata_get(meta, key, valuePresent, oom, n) ==
  IF ~valuePresent
  THEN [ret |-> NNS_EDGE_ERROR_INVALID_PARAMETER, value |-> NULL_STR, written |-> FALSE]
  ELSE LET idx == nns_edge_metadata_find(meta, key) IN
    IF idx # 0
    THEN IF (n + 1) \in oom
         THEN [ret |-> NNS_EDGE_ERROR_OUT_OF_MEMORY, value |-> NULL_STR, written |-> TRUE]
         ELSE [ret |-> NNS_EDGE_ERROR_NONE, value |-> meta.list[idx].value, written |-> TRUE]
    ELSE [ret |-> NNS_EDGE_ERROR_INVALID_PARAMETER, value |-> NULL_STR, written |-> FALSE]


\* The while loop of nns_edge_metadata_copy over src's nodes, from node i on.
RECURSIVE CopyLoop(_, _, _, _, _, _, _)
CopyLoop(tmp, list, i, oom, n, m, f) ==
  IF i > Len(list)
  THEN [ret |-> NNS_EDGE_ERROR_NONE, tmp |-> tmp, n |-> n, m |-> m, f |-> f]
  ELSE LET r == nns_edge_metadata_set(tmp, list[i].key, list[i].value, oom, n) IN
    IF r.ret # NNS_EDGE_ERROR_NONE
    THEN [ret |-> r.ret, tmp |-> nns_edge_metadata_free(r.meta).meta, n |-> r.n,
          m |-> m + r.m, f |-> f + r.f + nns_edge_metadata_free(r.meta).f]
    ELSE CopyLoop(r.meta, list, i + 1, oom, r.n, m + r.m, f + r.f)

\* nns_edge_metadata_copy setting into dest itself, without the scratch list.
Mut_copy_inplace(dest, src, oom, n) ==
  LET r == CopyLoop(nns_edge_metadata_free(dest).meta, src.list, 1, oom, n, 0,
                    nns_edge_metadata_free(dest).f)
  IN [ret |-> r.ret, dest |-> r.tmp, n |-> r.n, m |-> r.m, f |-> r.f]

\* nns_edge_metadata_copy: dest is replaced only when every node was copied
nns_edge_metadata_copy(dest, src, oom, n) ==
  LET r == CopyLoop(nns_edge_metadata_init, src.list, 1, oom, n, 0, 0) IN
    IF r.ret # NNS_EDGE_ERROR_NONE
    THEN [ret |-> r.ret, dest |-> dest, n |-> r.n, m |-> r.m, f |-> r.f]
    ELSE [ret |-> NNS_EDGE_ERROR_NONE, dest |-> r.tmp, n |-> r.n, m |-> r.m,
          f |-> r.f + nns_edge_metadata_free(dest).f]

(***************************************************************************)
(* Serialization.                                                          *)
(***************************************************************************)
\* The count written in network byte order, read back in the machine's.
Mut_StoreUInt_bigendian(v) ==
  [i \in 1..SizeofUInt |-> (v \div (256 ^ (SizeofUInt - i))) % 256]

\* ((unsigned int *) serialized)[0] = v, on a little-endian machine
StoreUInt(v) == [i \in 1..SizeofUInt |-> (v \div (256 ^ (i - 1))) % 256]

\* ((unsigned int *) data)[0], the bytes being those of mem from its start
LoadUInt(mem) ==
  LET RECURSIVE Sum(_)
      Sum(i) == IF i > SizeofUInt THEN 0 ELSE mem[i] * (256 ^ (i - 1)) + Sum(i + 1)
  IN Sum(1)

\* The size computed without the two terminating NULs of a pair.
RECURSIVE Mut_SerializedTotal_nonul(_, _)
Mut_SerializedTotal_nonul(list, i) ==
  IF i > Len(list) THEN 0
  ELSE Len(list[i].key) + Len(list[i].value) + Mut_SerializedTotal_nonul(list, i + 1)

\* The first loop of nns_edge_metadata_serialize: the size to allocate.
RECURSIVE SerializedTotal(_, _)
SerializedTotal(list, i) ==
  IF i > Len(list) THEN 0
  ELSE Len(list[i].key) + Len(list[i].value) + 2 + SerializedTotal(list, i + 1)

\* The second loop: key, NUL, value, NUL of every node from the head.
RECURSIVE SerializedPairs(_, _)
SerializedPairs(list, i) ==
  IF i > Len(list) THEN <<>>
  ELSE list[i].key \o <<0>> \o list[i].value \o <<0>> \o SerializedPairs(list, i + 1)

\* nns_edge_metadata_serialize: data is NULL (absent) when nothing is returned
nns_edge_metadata_serialize(meta, outPresent, oom, n) ==
  IF ~outPresent
  THEN [ret |-> NNS_EDGE_ERROR_INVALID_PARAMETER, present |-> FALSE, data |-> <<>>, data_len |-> 0]
  ELSE IF meta.list_len = 0
  THEN [ret |-> NNS_EDGE_ERROR_NONE, present |-> FALSE, data |-> <<>>, data_len |-> 0]
  ELSE IF (n + 1) \in oom
  THEN [ret |-> NNS_EDGE_ERROR_OUT_OF_MEMORY, present |-> FALSE, data |-> <<>>, data_len |-> 0]
  ELSE [ret |-> NNS_EDGE_ERROR_NONE, present |-> TRUE,
        data |-> StoreUInt(meta.list_len) \o SerializedPairs(meta.list, 1),
        data_len |-> SizeofUInt + SerializedTotal(meta.list, 1)]

\* strlen () of the string at offset cur of mem; -1 when no NUL is mapped
StrLenAt(mem, cur) ==
  LET nul == {i \in (cur + 1)..Len(mem) : mem[i] = 0}
  IN IF nul = {} THEN -1
     ELSE (CHOOSE i \in nul : \A j \in nul : i <= j) - (cur + 1)

\* The bytes of the string at offset cur, len long.
StrAt(mem, cur, len) == [i \in 1..len |-> mem[cur + i]]

(***************************************************************************)
(* The while loop of nns_edge_metadata_deserialize.  mem is the memory     *)
(* from data on: the data_len bytes handed in and whatever is mapped       *)
(* behind them.  last is the highest offset read so far (-1: none), sets   *)
(* the pairs handed to nns_edge_metadata_set so far.                       *)
(***************************************************************************)
RECURSIVE DeserializeLoop(_, _, _, _, _, _, _, _, _)
DeserializeLoop(meta, mem, data_len, total, cur, last, sets, oom, n) ==
  IF ~(cur < data_len \/ meta.list_len < total)
  THEN [ret |-> NNS_EDGE_ERROR_NONE, meta |-> meta, last |-> last, sets |-> sets, n |-> n]
  ELSE LET klen == StrLenAt(mem, cur) IN
    IF klen < 0
    THEN [ret |-> CRASH, meta |-> meta, last |-> Len(mem), sets |-> sets, n |-> n]
    ELSE LET vcur == cur + klen + 1
             vlen == StrLenAt(mem, vcur)
         IN
      IF vlen < 0
      THEN [ret |-> CRASH, meta |-> meta, last |-> Len(mem), sets |-> sets, n |-> n]
      ELSE LET key == StrAt(mem, cur, klen)
               value == StrAt(mem, vcur, vlen)
               r == nns_edge_metadata_set(meta, key, value, oom, n)
               rd == vcur + vlen
           IN IF r.ret # NNS_EDGE_ERROR_NONE
              THEN [ret |-> r.ret, meta |-> nns_edge_metadata_free(r.meta).meta,
                    last |-> rd, sets |-> Append(sets, <<key, value>>), n |-> r.n]
              ELSE DeserializeLoop(r.meta, mem, data_len, total, vcur + vlen + 1,
                                   rd, Append(sets, <<key, value>>), oom, r.n)

\* nns_edge_metadata_deserialize (meta, data, data_len); last is -1 when nothing was read
nns_edge_metadata_deserialize(meta, dataPresent, mem, data_len, oom, n) ==
  IF ~dataPresent \/ data_len <= 0
  THEN [ret |-> NNS_EDGE_ERROR_INVALID_PARAMETER, meta |-> meta, last |-> -1,
        sets |-> <<>>, n |-> n]
  ELSE IF Len(mem) < SizeofUInt
  THEN [ret |-> CRASH, meta |-> nns_edge_metadata_free(meta).meta, last |-> Len(mem),
        sets |-> <<>>, n |-> n]
  ELSE DeserializeLoop(nns_edge_metadata_free(meta).meta, mem, data_len, LoadUInt(mem),
                       SizeofUInt, SizeofUInt - 1, <<>>, oom, n)

(***************************************************************************)
(* State of the metadata specifications.                                   *)
(*   store    two metadata lists: dest, which the calls work on, and src,  *)
(*            the second list of a copy and the list behind a buffer       *)
(*   call     the last call: its name, its arguments and what it returned  *)
(*   heapLive the blocks (nodes, keys, values) allocated and not released  *)
(***************************************************************************)
VARIABLES store, call, heapLive

(***************************************************************************)
(* State of the handle specification.                                      *)
(*   objs    the memory of every nns_edge_data_s malloc can hand out       *)
(*   bufst   the caller's buffers: with the caller, held by a data handle  *)
(*           that was given a destroy callback for it, released by that    *)
(*           callback, or released twice                                   *)
(*   blocks  the memory nns_edge_memdup can hand out                       *)
(*   hcall   the last call on a handle                                     *)
(***************************************************************************)
VARIABLES objs, bufst, blocks, hcall, stale
VARIABLES events

metaVars == <<store, call, heapLive>>
objVars == <<objs, bufst, blocks, hcall, stale>>
evVars == <<events>>
vars == <<store, call, heapLive, objs, bufst, blocks, hcall, stale, events>>

StoreIds == {"dest", "src"}

\* "a", "A", "b", "c"
ValidKeys == {<<97>>, <<65>>, <<98>>, <<99>>}
\* "x", "yy"
ValidValues == {<<120>>, <<121, 121>>}
Keys == ValidKeys \cup {NULL_STR, <<>>}
Values == ValidValues \cup {NULL_STR, <<>>}

\* The allocations 1..k of one call that may fail: at most MaxOom of them.
OomSets(k) == {o \in SUBSET (1..k) : Cardinality(o) <= MaxOom}

\* What is mapped behind a buffer handed to deserialize.
Tails == {<<>>, <<0, 0>>, <<98, 0, 120, 0>>}

NoCall ==
  [op |-> "none", key |-> NULL_STR, value |-> NULL_STR,
   ret |-> NNS_EDGE_ERROR_NONE, out |-> NULL_STR, oom |-> {},
   mem |-> <<>>, data_len |-> 0, last |-> -1, sets |-> <<>>]

Prefix(seq, k) == [i \in 1..k |-> seq[i]]

\* The lists that at most k successful calls of set build from the empty one.
RECURSIVE Built(_)
Built(k) ==
  IF k = 0 THEN {nns_edge_metadata_init}
  ELSE LET B == Built(k - 1) IN
       B \cup {nns_edge_metadata_set(m, key, value, {}, 0).meta :
                 m \in B, key \in ValidKeys, value \in ValidValues}

(***************************************************************************)
(* Handles.  A data handle is the address of a nns_edge_data_s: 0 is NULL, *)
(* the others are the blocks of DataAddrs.  A pointer to bytes is NULL, a  *)
(* buffer of the caller or a block of nns_edge_memdup.                     *)
(***************************************************************************)
DataAddrs == {1, 2}
UserBufs == {1, 2}
BlockAddrs == 1..NNS_EDGE_DATA_LIMIT

\* The bytes of the caller's buffers.
BufBytes == [p \in UserBufs |-> IF p = 1 THEN <<7>> ELSE <<8, 9>>]

NULL == [kind |-> "null", a |-> 0]
BufPtr(p) == [kind |-> "buf", a |-> p]
BlkPtr(b) == [kind |-> "blk", a |-> b]

NNS_EDGE_MAGIC == "ALIVE"
NNS_EDGE_MAGIC_DEAD == "DEAD"

\* The key and value of the information set on a data handle: "a"; "x".
InfoKeys == {<<97>>}
InfoValues == {<<120>>}

\* Memory malloc has not handed out, or free () has taken back.
Released(st) == [st |-> st, magic |-> NNS_EDGE_MAGIC_DEAD, num |-> 0, data |-> <<>>,
                 metadata |-> NullMeta]

\* nns_edge_data_create: memset 0, magic, nns_edge_metadata_init
NewData == [st |-> "live", magic |-> NNS_EDGE_MAGIC, num |-> 0, data |-> <<>>,
            metadata |-> nns_edge_metadata_init]

NoHCall == [op |-> "none", h |-> 0, arg |-> <<>>, ret |-> NNS_EDGE_ERROR_NONE,
            out |-> <<>>, oom |-> {}, trace |-> <<>>]

\* Mutant of MagicRead: every handle reads as a live one.
Mut_MagicRead_alive(h) == {"ALIVE"}

(***************************************************************************)
(* What reading the magic of handle h can give.  The memory behind a       *)
(* destroyed handle is freed: the read is undefined, and gives the         *)
(* DEAD that destroy wrote or what the allocator has written over it.      *)
(***************************************************************************)
MagicRead(h) ==
  IF h = 0 THEN {NNS_EDGE_MAGIC_DEAD}
  ELSE IF objs[h].st = "live" THEN {objs[h].magic}
  ELSE {NNS_EDGE_MAGIC_DEAD, "JUNK"}

\* NNS_EDGE_MAGIC_IS_VALID (h): ((h) && (h)->magic == NNS_EDGE_MAGIC)
NNS_EDGE_MAGIC_IS_VALID(h, magic) == h # 0 /\ magic = NNS_EDGE_MAGIC

\* The handles a caller passes: NULL while no create has returned one, then
\* every address a create has returned, destroyed since or not.
Handles ==
  IF \A a \in DataAddrs : objs[a].st = "unmapped" THEN {0}
  ELSE {a \in DataAddrs : objs[a].st # "unmapped"}

\* malloc (): the lowest free address of a pool (0: none is left).
Malloc(free) == IF free = {} THEN 0 ELSE CHOOSE a \in free : \A b \in free : a <= b

\* The bytes behind a pointer.
BytesAt(ptr, blks) ==
  IF ptr.kind = "buf" THEN BufBytes[ptr.a]
  ELSE IF ptr.kind = "blk" THEN blks[ptr.a].bytes
  ELSE <<>>

\* A destroy callback called with ptr: nns_edge_free, or the caller's.
\* mem is [bufst, blocks].
CallDestroyCb(cb, ptr, mem) ==
  IF cb = "nns_edge_free"
  THEN IF ptr.kind = "blk"
       THEN [mem EXCEPT !.blocks[ptr.a] =
               IF @.st = "live" THEN [st |-> "free", bytes |-> <<>>]
               ELSE [st |-> "corrupt", bytes |-> <<>>]]
       ELSE mem
  ELSE IF ptr.kind = "buf"
       THEN [mem EXCEPT !.bufst[ptr.a] = IF @ = "released" THEN "double" ELSE "released"]
       ELSE mem

\* Mutant of DestroyLoop: no destroy callback is called.
Mut_DestroyLoop_nocb(data, i, mem, trace) == [mem |-> mem, trace |-> trace]

\* Mutant of DestroyLoop: the callbacks are called before anything else is done.
RECURSIVE Mut_DestroyLoop_cbfirst(_, _, _, _)
Mut_DestroyLoop_cbfirst(data, i, mem, trace) ==
  IF i > Len(data) THEN [mem |-> mem, trace |-> trace]
  ELSE IF data[i].destroy_cb # "NULL"
  THEN Mut_DestroyLoop_cbfirst(data, i + 1,
                               CallDestroyCb(data[i].destroy_cb, data[i].data, mem),
                               <<[ev |-> data[i].destroy_cb, ptr |-> data[i].data]>> \o trace)
  ELSE Mut_DestroyLoop_cbfirst(data, i + 1, mem, trace)

\* The for loop of nns_edge_data_destroy from entry i on.
RECURSIVE DestroyLoop(_, _, _, _)
DestroyLoop(data, i, mem, trace) ==
  IF i > Len(data) THEN [mem |-> mem, trace |-> trace]
  ELSE IF data[i].destroy_cb # "NULL"
  THEN DestroyLoop(data, i + 1, CallDestroyCb(data[i].destroy_cb, data[i].data, mem),
                   Append(trace, [ev |-> data[i].destroy_cb, ptr |-> data[i].data]))
  ELSE DestroyLoop(data, i + 1, mem, trace)

\* nns_edge_memdup (data, size): ptr is NULL when nothing was allocated
nns_edge_memdup(ptr, size, blks, oom, n) ==
  IF ptr # NULL /\ size > 0
  THEN LET b == Malloc({a \in BlockAddrs : blks[a].st = "free"}) IN
       IF (n + 1) \in oom \/ b = 0
       THEN [ptr |-> NULL, blocks |-> blks, n |-> n + 1]
       ELSE [ptr |-> BlkPtr(b),
             blocks |-> [blks EXCEPT ![b] = [st |-> "live",
                                             bytes |-> Prefix(BytesAt(ptr, blks), size)]],
             n |-> n + 1]
  ELSE [ptr |-> NULL, blocks |-> blks, n |-> n]

\* The for loop of nns_edge_data_copy from entry i on.
RECURSIVE CopyEntries(_, _, _, _, _, _)
CopyEntries(data, i, copied, blks, oom, n) ==
  IF i > Len(data) THEN [data |-> copied, blocks |-> blks, n |-> n]
  ELSE LET d == nns_edge_memdup(data[i].data, data[i].data_len, blks, oom, n) IN
       CopyEntries(data, i + 1,
                   Append(copied, [data |-> d.ptr, data_len |-> data[i].data_len,
                                   destroy_cb |-> "nns_edge_free"]),
                   d.blocks, oom, d.n)

(***************************************************************************)
(* Events.                                                                 *)
(***************************************************************************)
EventAddrs == {1}

\* nns_edge_event_e
NNS_EDGE_EVENT_UNKNOWN == 0
NNS_EDGE_EVENT_CAPABILITY == 1
NNS_EDGE_EVENT_NEW_DATA_RECEIVED == 2
NNS_EDGE_EVENT_CALLBACK_RELEASED == 3

\* A pointer to a data object.
DataPtr(a) == [kind |-> "data", a |-> a]

NoPayload == [data |-> NULL, data_len |-> 0, destroy_cb |-> "NULL"]

\* Event memory malloc has not handed out, or free () has taken back.
ReleasedEvent(st) == [st |-> st, magic |-> NNS_EDGE_MAGIC_DEAD,
                      event |-> NNS_EDGE_EVENT_UNKNOWN, data |-> NoPayload]

\* nns_edge_event_create: memset 0, magic, event
NewEvent(event) == [st |-> "live", magic |-> NNS_EDGE_MAGIC, event |-> event,
                    data |-> NoPayload]

EvInit == events = [a \in EventAddrs |-> ReleasedEvent("unmapped")]

ObjInit ==
  /\ objs = [a \in DataAddrs |-> Released("unmapped")]
  /\ bufst = [p \in UserBufs |-> "caller"]
  /\ blocks = [b \in BlockAddrs |-> [st |-> "free", bytes |-> <<>>]]
  /\ hcall = NoHCall
  /\ stale = {}

(***************************************************************************)
(* SpecMeta: any sequence of set, get, serialize and free on one list.     *)
(***************************************************************************)
MetaInit ==
  /\ store = [s \in StoreIds |-> nns_edge_metadata_init]
  /\ call = NoCall
  /\ heapLive = 0
  /\ ObjInit
  /\ EvInit

MetaSet(key, value, oom) ==
  \E r \in {nns_edge_metadata_set(store.dest, key, value, oom, 0)} :
    /\ r.meta.list_len <= MaxNodes
    /\ store' = [store EXCEPT !.dest = r.meta]
    /\ heapLive' = heapLive + r.m - r.f
    /\ call' = [NoCall EXCEPT !.op = "set", !.key = key, !.value = value,
                              !.ret = r.ret, !.oom = oom \cap (1..r.n)]
    /\ UNCHANGED <<objVars, evVars>>

MetaGet(key, oom) ==
  \E r \in {nns_edge_metadata_get(store.dest, key, TRUE, oom, 0)} :
    /\ call' = [NoCall EXCEPT !.op = "get", !.key = key, !.ret = r.ret,
                              !.out = r.value, !.oom = oom]
    /\ UNCHANGED <<store, heapLive, objVars, evVars>>

MetaFree ==
  \E r \in {nns_edge_metadata_free(store.dest)} :
    /\ store' = [store EXCEPT !.dest = r.meta]
    /\ heapLive' = heapLive - r.f
    /\ call' = [NoCall EXCEPT !.op = "free", !.ret = r.ret]
    /\ UNCHANGED <<objVars, evVars>>

MetaSerialize(oom) ==
  \E r \in {nns_edge_metadata_serialize(store.dest, TRUE, oom, 0)} :
    /\ call' = [NoCall EXCEPT !.op = "serialize", !.ret = r.ret, !.out = <<r.present>>,
                              !.mem = r.data, !.data_len = r.data_len, !.oom = oom]
    /\ UNCHANGED <<store, heapLive, objVars, evVars>>

MetaNext ==
  \/ \E key \in Keys, value \in Values, oom \in OomSets(3) : MetaSet(key, value, oom)
  \/ \E key \in Keys, oom \in OomSets(1) : MetaGet(key, oom)
  \/ MetaFree
  \/ \E oom \in OomSets(1) : MetaSerialize(oom)

SpecMeta == MetaInit /\ [][MetaNext]_vars

(***************************************************************************)
(* SpecPair: one call of copy or of deserialize on a pair of lists that    *)
(* earlier calls of set have built.                                        *)
(***************************************************************************)
PairInit ==
  /\ store \in [StoreIds -> Built(MaxNodes)]
  /\ Len(store.dest.list) <= 1
  /\ call = NoCall
  /\ heapLive = 3 * (Len(store.dest.list) + Len(store.src.list))
  /\ ObjInit
  /\ EvInit

PairCopy(oom) ==
  /\ call.op = "none"
  /\ \E r \in {nns_edge_metadata_copy(store.dest, store.src, oom, 0)} :
       /\ store' = [store EXCEPT !.dest = r.dest]
       /\ heapLive' = heapLive + r.m - r.f
       /\ call' = [NoCall EXCEPT !.op = "copy", !.ret = r.ret, !.oom = oom \cap (1..r.n)]
       /\ UNCHANGED <<objVars, evVars>>

(***************************************************************************)
(* The buffers handed to deserialize: the serialized form of src, whole or *)
(* cut short (cut bytes of it), with the count it declares or another one, *)
(* and with tail mapped behind it.  Allocations fail (oom) on the whole    *)
(* buffers; on the others every allocation succeeds.                       *)
(***************************************************************************)
Deserialize(mem, data_len, oom) ==
  \E r \in {nns_edge_metadata_deserialize(store.dest, data_len > 0, mem, data_len, oom, 0)} :
    /\ store' = [store EXCEPT !.dest = r.meta]
    /\ heapLive' = heapLive + 3 * (Len(r.meta.list) - Len(store.dest.list))
    /\ call' = [NoCall EXCEPT !.op = "deserialize", !.ret = r.ret,
                              !.mem = mem, !.data_len = data_len, !.last = r.last,
                              !.sets = r.sets, !.oom = oom \cap (1..r.n)]
    /\ UNCHANGED <<objVars, evVars>>

PairDeserialize(cut, count, tail) ==
  /\ call.op = "none"
  /\ \E whole \in {IF store.src.list_len = 0 THEN <<>>
                   ELSE StoreUInt(count) \o SerializedPairs(store.src.list, 1)} :
       /\ cut <= Len(whole)
       /\ Deserialize(Prefix(whole, cut) \o tail, cut, {})

PairDeserializeOom(oom) ==
  /\ call.op = "none"
  /\ oom # {}
  /\ \E z \in {nns_edge_metadata_serialize(store.src, TRUE, {}, 0)} :
       Deserialize(z.data, z.data_len, oom)

PairNext ==
  \/ \E oom \in OomSets(3 * MaxNodes) : PairCopy(oom)
  \/ \E cut \in 0..(SizeofUInt + 5 * MaxNodes), count \in 0..(MaxNodes + 1), tail \in Tails :
       PairDeserialize(cut, count, tail)
  \/ \E oom \in OomSets(3 * MaxNodes) : PairDeserializeOom(oom)

SpecPair == PairInit /\ [][PairNext]_vars

(***************************************************************************)
(* SpecStore: any sequence of init, set, free, copy and deserialize on two *)
(* lists, each of which is copied to the other and to itself; deserialize  *)
(* is handed the serialized form of src, whole or cut short, with the      *)
(* count it declares or another one; behind a buffer cut short no letter   *)
(* is mapped.  No call follows a crash.                                    *)
(***************************************************************************)
Running == call.ret # CRASH

\* nns_edge_metadata_init (meta), on a list that holds no node
StoreInit ==
  /\ store.dest.list_len = 0
  /\ store' = [store EXCEPT !.dest = nns_edge_metadata_init]
  /\ call' = [NoCall EXCEPT !.op = "init"]
  /\ UNCHANGED <<heapLive, objVars, evVars>>

\* nns_edge_metadata_copy (to, from)
StoreCopy(to, from, oom) ==
  \E r \in {nns_edge_metadata_copy(store[to], store[from], oom, 0)} :
    /\ store' = [store EXCEPT ![to] = r.dest]
    /\ heapLive' = heapLive + r.m - r.f
    /\ call' = [NoCall EXCEPT !.op = "copy", !.ret = r.ret, !.oom = oom \cap (1..r.n)]
    /\ UNCHANGED <<objVars, evVars>>

StoreDeserialize(cut, count, tail) ==
  \E whole \in {IF store.src.list_len = 0 THEN <<>>
                ELSE StoreUInt(count) \o SerializedPairs(store.src.list, 1)} :
    /\ cut <= Len(whole)
    /\ cut < Len(whole) => tail \in {<<>>, <<0, 0>>}
    /\ cut \in {0, SizeofUInt - 1, Len(whole) - 1, Len(whole)}
    /\ Deserialize(Prefix(whole, cut) \o tail, cut, {})

StoreDeserializeOom(oom) ==
  /\ oom # {}
  /\ \E z \in {nns_edge_metadata_serialize(store.src, TRUE, {}, 0)} :
       Deserialize(z.data, z.data_len, oom)

\* "a", "A", "b", the empty key; "x", "yy", no value
StoreKeys == {<<97>>, <<65>>, <<98>>, <<>>}
StoreValues == {<<120>>, <<121, 121>>, NULL_STR}

StoreNext ==
  \/ Running /\ StoreInit
  \/ Running /\ \E key \in StoreKeys, value \in StoreValues, oom \in OomSets(3) :
                  MetaSet(key, value, oom)
  \/ Running /\ MetaFree
  \/ Running /\ \E to \in StoreIds, from \in StoreIds, oom \in OomSets(3 * MaxNodes) :
                  StoreCopy(to, from, oom)
  \/ Running /\ \E cut \in 0..(SizeofUInt + 5 * MaxNodes), count \in 0..(MaxNodes + 1),
                   tail \in Tails : StoreDeserialize(cut, count, tail)
  \/ Running /\ \E oom \in OomSets(3 * MaxNodes) : StoreDeserializeOom(oom)

SpecStore == MetaInit /\ [][StoreNext]_vars

(***************************************************************************)
(* Spec: any sequence of calls on data handles.  A caller hands a buffer   *)
(* over with a destroy callback once, and hands over no released buffer.   *)
(***************************************************************************)
FreeData == {a \in DataAddrs : objs[a].st # "live"}
FreeBlocks == {b \in BlockAddrs : blocks[b].st = "free"}

Init ==
  /\ store = [s \in StoreIds |-> nns_edge_metadata_init]
  /\ call = NoCall
  /\ heapLive = 0
  /\ ObjInit
  /\ EvInit

\* nns_edge_data_create (data_h).  The caller creates a handle when it holds no
\* live one: a second live handle is a copy.
DataCreate(outPresent, oom) ==
  /\ \A a \in DataAddrs : objs[a].st # "live"
  /\ IF ~outPresent
     THEN /\ hcall' = [NoHCall EXCEPT !.op = "data_create",
                                      !.ret = NNS_EDGE_ERROR_INVALID_PARAMETER]
          /\ UNCHANGED objs
     ELSE IF 1 \in oom
     THEN /\ hcall' = [NoHCall EXCEPT !.op = "data_create",
                                      !.ret = NNS_EDGE_ERROR_OUT_OF_MEMORY]
          /\ UNCHANGED objs
     ELSE \E a \in {Malloc(FreeData)} :
            /\ a # 0
            /\ objs' = [objs EXCEPT ![a] = NewData]
            /\ hcall' = [NoHCall EXCEPT !.op = "data_create", !.out = <<a>>]
  /\ UNCHANGED <<bufst, blocks, stale, metaVars, evVars>>

\* nns_edge_data_destroy (data_h)
DataDestroy(h) ==
  /\ \E magic \in MagicRead(h) :
       IF ~NNS_EDGE_MAGIC_IS_VALID(h, magic)
       THEN /\ hcall' = [NoHCall EXCEPT !.op = "data_destroy", !.h = h,
                                        !.ret = NNS_EDGE_ERROR_INVALID_PARAMETER]
            /\ UNCHANGED <<objs, bufst, blocks, stale>>
       ELSE \E d \in {DestroyLoop(SubSeq(objs[h].data, 1, objs[h].num), 1,
                                  [bufst |-> bufst, blocks |-> blocks],
                                  <<[ev |-> "magic_dead", ptr |-> NULL]>>)} :
              /\ objs' = [objs EXCEPT ![h] = Released("freed")]
              /\ stale' = stale \cup {h}
              /\ bufst' = d.mem.bufst
              /\ blocks' = d.mem.blocks
              /\ hcall' = [NoHCall EXCEPT !.op = "data_destroy", !.h = h,
                             !.trace = d.trace \o <<[ev |-> "metadata_free", ptr |-> NULL],
                                                    [ev |-> "free", ptr |-> NULL]>>]
  /\ UNCHANGED <<metaVars, evVars>>

\* nns_edge_data_copy (data_h, new_data_h), valid being what the check of the
\* handle's magic gave.  enabled: the heap of the model has room for the copy.
nns_edge_data_copy(h, valid, outPresent, oom) ==
  IF ~valid \/ ~outPresent
  THEN [enabled |-> TRUE, ret |-> NNS_EDGE_ERROR_INVALID_PARAMETER, objs |-> objs,
        blocks |-> blocks, out |-> <<>>, oom |-> {}]
  ELSE IF 1 \in oom
  THEN [enabled |-> TRUE, ret |-> NNS_EDGE_ERROR_OUT_OF_MEMORY, objs |-> objs,
        blocks |-> blocks, out |-> <<>>, oom |-> {1}]
  ELSE LET a == Malloc(FreeData)
           c == CopyEntries(SubSeq(objs[h].data, 1, objs[h].num), 1, <<>>, blocks, oom, 1)
           m == nns_edge_metadata_copy(NewData.metadata, objs[h].metadata, oom, c.n)
       IN [enabled |-> a # 0 /\ Cardinality(FreeBlocks) >= objs[h].num,
           ret |-> m.ret,
           objs |-> IF a = 0 THEN objs
                    ELSE [objs EXCEPT ![a] = [NewData EXCEPT !.num = objs[h].num,
                                                             !.data = c.data,
                                                             !.metadata = m.dest]],
           blocks |-> c.blocks,
           out |-> <<a>>,
           oom |-> oom \cap (1..m.n)]

DataCopy(h, outPresent, oom) ==
  /\ \E magic \in MagicRead(h) :
     \E r \in {nns_edge_data_copy(h, NNS_EDGE_MAGIC_IS_VALID(h, magic), outPresent, oom)} :
       /\ r.enabled
       /\ objs' = r.objs
       /\ blocks' = r.blocks
       /\ hcall' = [NoHCall EXCEPT !.op = "data_copy", !.h = h, !.ret = r.ret,
                                   !.out = r.out, !.oom = r.oom]
  /\ UNCHANGED <<bufst, stale, metaVars, evVars>>

\* Mutant of AddRejects: the number of entries is not checked.
Mut_AddRejects_nolimit(ed, data, data_len) == data = NULL \/ data_len <= 0

\* nns_edge_data_add: the checks after the handle's
AddRejects(ed, data, data_len) ==
  \/ ed.num >= NNS_EDGE_DATA_LIMIT
  \/ data = NULL \/ data_len <= 0

\* Mutant of AddEntry: the entry is put in front of the others.
Mut_AddEntry_front(ed, data, data_len, destroy_cb) ==
  [ed EXCEPT !.data = <<[data |-> data, data_len |-> data_len, destroy_cb |-> destroy_cb]>>
                        \o SubSeq(@, 1, ed.num),
             !.num = @ + 1]

\* ed->data[ed->num] = {data, data_len, destroy_cb}; ed->num++;
AddEntry(ed, data, data_len, destroy_cb) ==
  [ed EXCEPT !.data = Append(SubSeq(@, 1, ed.num),
                             [data |-> data, data_len |-> data_len,
                              destroy_cb |-> destroy_cb]),
             !.num = @ + 1]

\* nns_edge_data_add (data_h, data, data_len, destroy_cb).  The caller hands a
\* buffer over with a destroy callback once, and lends no released buffer.
DataAdd(h, data, data_len, destroy_cb) ==
  /\ data.kind = "buf" => bufst[data.a] \in {"caller", "held"}
  /\ (data.kind = "buf" /\ destroy_cb # "NULL") => bufst[data.a] = "caller"
  /\ \E magic \in MagicRead(h) :
       IF ~NNS_EDGE_MAGIC_IS_VALID(h, magic) \/ AddRejects(objs[h], data, data_len)
       THEN /\ hcall' = [NoHCall EXCEPT !.op = "data_add", !.h = h,
                                        !.arg = <<data, data_len, destroy_cb>>,
                                        !.ret = NNS_EDGE_ERROR_INVALID_PARAMETER]
            /\ UNCHANGED <<objs, bufst>>
       ELSE /\ objs' = [objs EXCEPT ![h] = AddEntry(@, data, data_len, destroy_cb)]
            /\ bufst' = IF destroy_cb # "NULL" THEN [bufst EXCEPT ![data.a] = "held"]
                        ELSE bufst
            /\ hcall' = [NoHCall EXCEPT !.op = "data_add", !.h = h,
                                        !.arg = <<data, data_len, destroy_cb>>]
  /\ UNCHANGED <<blocks, stale, metaVars, evVars>>

\* nns_edge_data_get (data_h, index, data, data_len), data and data_len given
DataGet(h, index) ==
  /\ \E magic \in MagicRead(h) :
       IF ~NNS_EDGE_MAGIC_IS_VALID(h, magic) \/ index >= objs[h].num
       THEN hcall' = [NoHCall EXCEPT !.op = "data_get", !.h = h, !.arg = <<index>>,
                                     !.ret = NNS_EDGE_ERROR_INVALID_PARAMETER]
       ELSE hcall' = [NoHCall EXCEPT !.op = "data_get", !.h = h, !.arg = <<index>>,
                        !.out = <<objs[h].data[index + 1].data,
                                  objs[h].data[index + 1].data_len>>]
  /\ UNCHANGED <<objs, bufst, blocks, stale, metaVars, evVars>>

\* nns_edge_data_get_count (data_h, count), count given
DataGetCount(h) ==
  /\ \E magic \in MagicRead(h) :
       IF ~NNS_EDGE_MAGIC_IS_VALID(h, magic)
       THEN hcall' = [NoHCall EXCEPT !.op = "data_get_count", !.h = h,
                                     !.ret = NNS_EDGE_ERROR_INVALID_PARAMETER]
       ELSE hcall' = [NoHCall EXCEPT !.op = "data_get_count", !.h = h,
                                     !.out = <<objs[h].num>>]
  /\ UNCHANGED <<objs, bufst, blocks, stale, metaVars, evVars>>

\* nns_edge_data_set_info (data_h, key, value)
DataSetInfo(h, key, value, oom) ==
  /\ \E magic \in MagicRead(h) :
       IF ~NNS_EDGE_MAGIC_IS_VALID(h, magic) \/ ~STR_IS_VALID(key) \/ ~STR_IS_VALID(value)
       THEN /\ hcall' = [NoHCall EXCEPT !.op = "data_set_info", !.h = h,
                                        !.ret = NNS_EDGE_ERROR_INVALID_PARAMETER]
            /\ UNCHANGED objs
       ELSE \E r \in {nns_edge_metadata_set(objs[h].metadata, key, value, oom, 0)} :
              /\ objs' = [objs EXCEPT ![h].metadata = r.meta]
              /\ hcall' = [NoHCall EXCEPT !.op = "data_set_info", !.h = h, !.ret = r.ret]
  /\ UNCHANGED <<bufst, blocks, stale, metaVars, evVars>>

\* nns_edge_data_get_info (data_h, key, value), value given
DataGetInfo(h, key, oom) ==
  /\ \E magic \in MagicRead(h) :
       IF ~NNS_EDGE_MAGIC_IS_VALID(h, magic) \/ ~STR_IS_VALID(key)
       THEN hcall' = [NoHCall EXCEPT !.op = "data_get_info", !.h = h,
                                     !.ret = NNS_EDGE_ERROR_INVALID_PARAMETER]
       ELSE \E r \in {nns_edge_metadata_get(objs[h].metadata, key, TRUE, oom, 0)} :
              hcall' = [NoHCall EXCEPT !.op = "data_get_info", !.h = h,
                                       !.ret = r.ret, !.out = <<r.value>>]
  /\ UNCHANGED <<objs, bufst, blocks, stale, metaVars, evVars>>

\* nns_edge_data_serialize_meta (data_h, data, data_len)
DataSerializeMeta(h, oom) ==
  /\ \E magic \in MagicRead(h) :
       IF ~NNS_EDGE_MAGIC_IS_VALID(h, magic)
       THEN hcall' = [NoHCall EXCEPT !.op = "data_serialize_meta", !.h = h,
                                     !.ret = NNS_EDGE_ERROR_INVALID_PARAMETER]
       ELSE \E r \in {nns_edge_metadata_serialize(objs[h].metadata, TRUE, oom, 0)} :
              hcall' = [NoHCall EXCEPT !.op = "data_serialize_meta", !.h = h,
                                       !.ret = r.ret, !.out = <<r.data, r.data_len>>]
  /\ UNCHANGED <<objs, bufst, blocks, stale, metaVars, evVars>>

\* The buffers handed to nns_edge_data_deserialize_meta: nothing, or the
\* serialized form of one pair.
InfoBlobs ==
  {<<>>} \cup
  {nns_edge_metadata_serialize(
     nns_edge_metadata_set(nns_edge_metadata_init, k, v, {}, 0).meta, TRUE, {}, 0).data :
       k \in InfoKeys, v \in InfoValues}

\* nns_edge_data_deserialize_meta (data_h, data, data_len)
DataDeserializeMeta(h, data, oom) ==
  /\ \E magic \in MagicRead(h) :
       IF ~NNS_EDGE_MAGIC_IS_VALID(h, magic)
       THEN /\ hcall' = [NoHCall EXCEPT !.op = "data_deserialize_meta", !.h = h,
                                        !.ret = NNS_EDGE_ERROR_INVALID_PARAMETER]
            /\ UNCHANGED objs
       ELSE \E r \in {nns_edge_metadata_deserialize(objs[h].metadata, Len(data) > 0,
                                                    data, Len(data), oom, 0)} :
              /\ objs' = [objs EXCEPT ![h].metadata = r.meta]
              /\ hcall' = [NoHCall EXCEPT !.op = "data_deserialize_meta", !.h = h, !.ret = r.ret]
  /\ UNCHANGED <<bufst, blocks, stale, metaVars, evVars>>

\* What a caller passes to nns_edge_data_add: buffer 1 handed over with its
\* destroy callback, buffer 2 lent without one, no buffer, no length.
AddInputs ==
  { [data |-> BufPtr(1), data_len |-> Len(BufBytes[1]), destroy_cb |-> "user_cb"],
    [data |-> BufPtr(2), data_len |-> Len(BufBytes[2]), destroy_cb |-> "NULL"],
    [data |-> NULL, data_len |-> 1, destroy_cb |-> "NULL"],
    [data |-> BufPtr(2), data_len |-> 0, destroy_cb |-> "NULL"] }

Next ==
  \/ \E outPresent \in BOOLEAN, oom \in OomSets(1) : DataCreate(outPresent, oom)
  \/ \E h \in Handles : DataDestroy(h)
  \/ \E h \in Handles, oom \in OomSets(NNS_EDGE_DATA_LIMIT + 4) : DataCopy(h, TRUE, oom)
  \/ \E h \in Handles : DataCopy(h, FALSE, {})
  \/ \E h \in Handles, in \in AddInputs :
       DataAdd(h, in.data, in.data_len, in.destroy_cb)
  \/ \E h \in Handles, index \in 0..NNS_EDGE_DATA_LIMIT : DataGet(h, index)
  \/ \E h \in Handles : DataGetCount(h)
  \/ \E h \in Handles, key \in InfoKeys, value \in InfoValues, oom \in OomSets(3) :
       DataSetInfo(h, key, value, oom)
  \/ \E h \in Handles, in \in {<<<<>>, <<120>>>>, <<<<97>>, NULL_STR>>} :
       DataSetInfo(h, in[1], in[2], {})
  \/ \E h \in Handles, key \in InfoKeys \cup {<<>>} : DataGetInfo(h, key, {})
  \/ \E h \in Handles : DataSerializeMeta(h, {})
  \/ \E h \in Handles, data \in InfoBlobs : DataDeserializeMeta(h, data, {})

Spec == Init /\ [][Next]_vars

(***************************************************************************)
(* SpecEvent: any sequence of calls on an event handle.  The payloads are  *)
(* the caller's two buffers, handed over with a destroy callback, and a    *)
(* data object, lent.                                                      *)
(***************************************************************************)
\* What reading the magic of event handle h can give (see MagicRead).
EventMagicRead(h) ==
  IF h = 0 THEN {NNS_EDGE_MAGIC_DEAD}
  ELSE IF events[h].st = "live" THEN {events[h].magic}
  ELSE {NNS_EDGE_MAGIC_DEAD, "JUNK"}

\* The event handles a caller passes: NULL while no create has returned one.
EventHandles ==
  IF \A a \in EventAddrs : events[a].st = "unmapped" THEN {0}
  ELSE {a \in EventAddrs : events[a].st # "unmapped"}

FreeEvents == {a \in EventAddrs : events[a].st # "live"}

\* What reading the magic behind a payload pointer gives to nns_edge_data_copy:
\* a data object's, or the bytes of something else.
PayloadMagicRead(ptr) ==
  IF ptr.kind = "data" THEN MagicRead(ptr.a)
  ELSE IF ptr = NULL THEN {NNS_EDGE_MAGIC_DEAD}
  ELSE {"JUNK"}

\* nns_edge_strdup (str): present is FALSE when the result is NULL
nns_edge_strdup(ptr, oom, n) ==
  IF ptr # NULL
  THEN IF (n + 1) \in oom THEN [present |-> FALSE, str |-> <<>>, n |-> n + 1]
       ELSE [present |-> TRUE, str |-> BytesAt(ptr, blocks), n |-> n + 1]
  ELSE [present |-> FALSE, str |-> <<>>, n |-> n]

\* Mutant of EventCreateRejects: only the kinds below unknown are refused.
Mut_EventCreateRejects_below(event, outPresent) ==
  ~outPresent \/ event < NNS_EDGE_EVENT_UNKNOWN

\* nns_edge_event_create: the checks of the arguments
EventCreateRejects(event, outPresent) ==
  ~outPresent \/ event <= NNS_EDGE_EVENT_UNKNOWN

\* nns_edge_event_create (event, event_h)
EventCreate(event, outPresent, oom) ==
  /\ IF EventCreateRejects(event, outPresent)
     THEN /\ hcall' = [NoHCall EXCEPT !.op = "event_create", !.arg = <<event>>,
                                      !.ret = NNS_EDGE_ERROR_INVALID_PARAMETER]
          /\ UNCHANGED events
     ELSE IF 1 \in oom
     THEN /\ hcall' = [NoHCall EXCEPT !.op = "event_create", !.arg = <<event>>,
                                      !.oom = {1},
                                      !.ret = NNS_EDGE_ERROR_OUT_OF_MEMORY]
          /\ UNCHANGED events
     ELSE \E a \in {Malloc(FreeEvents)} :
            /\ a # 0
            /\ events' = [events EXCEPT ![a] = NewEvent(event)]
            /\ hcall' = [NoHCall EXCEPT !.op = "event_create", !.arg = <<event>>,
                                        !.out = <<a>>]
  /\ UNCHANGED <<objs, bufst, blocks, stale, metaVars>>

\* Mutant of EventRelease: the callback of the payload is not called.
Mut_EventRelease_nocb(payload, mem, trace) == [mem |-> mem, trace |-> trace]

\* if (ee->data.destroy_cb) ee->data.destroy_cb (ee->data.data);
EventRelease(payload, mem, trace) ==
  IF payload.destroy_cb # "NULL"
  THEN [mem |-> CallDestroyCb(payload.destroy_cb, payload.data, mem),
        trace |-> Append(trace, [ev |-> payload.destroy_cb, ptr |-> payload.data])]
  ELSE [mem |-> mem, trace |-> trace]

\* nns_edge_event_destroy (event_h)
EventDestroy(h) ==
  /\ \E magic \in EventMagicRead(h) :
       IF ~NNS_EDGE_MAGIC_IS_VALID(h, magic)
       THEN /\ hcall' = [NoHCall EXCEPT !.op = "event_destroy", !.h = h,
                                        !.ret = NNS_EDGE_ERROR_INVALID_PARAMETER]
            /\ UNCHANGED <<events, bufst, blocks>>
       ELSE \E d \in {EventRelease(events[h].data, [bufst |-> bufst, blocks |-> blocks],
                                   <<[ev |-> "magic_dead", ptr |-> NULL]>>)} :
              /\ events' = [events EXCEPT ![h] = ReleasedEvent("freed")]
              /\ bufst' = d.mem.bufst
              /\ blocks' = d.mem.blocks
              /\ hcall' = [NoHCall EXCEPT !.op = "event_destroy", !.h = h,
                             !.trace = Append(d.trace, [ev |-> "free", ptr |-> NULL])]
  /\ UNCHANGED <<objs, stale, metaVars>>

\* nns_edge_event_set_data (event_h, data, data_len, destroy_cb).  The caller
\* hands over a buffer that is its own.
EventSetData(h, data, data_len, destroy_cb) ==
  /\ data.kind = "buf" => bufst[data.a] = "caller"
  /\ data.kind = "data" => objs[data.a].st = "live"
  /\ \E magic \in EventMagicRead(h) :
       IF ~NNS_EDGE_MAGIC_IS_VALID(h, magic) \/ data = NULL \/ data_len <= 0
       THEN /\ hcall' = [NoHCall EXCEPT !.op = "event_set_data", !.h = h,
                                        !.arg = <<data, data_len, destroy_cb>>,
                                        !.ret = NNS_EDGE_ERROR_INVALID_PARAMETER]
            /\ UNCHANGED <<events, bufst, blocks>>
       ELSE \E d \in {EventRelease(events[h].data, [bufst |-> bufst, blocks |-> blocks],
                                   <<>>)} :
              /\ events' = [events EXCEPT ![h].data =
                              [data |-> data, data_len |-> data_len,
                               destroy_cb |-> destroy_cb]]
              /\ bufst' = IF destroy_cb # "NULL" /\ data.kind = "buf"
                          THEN [d.mem.bufst EXCEPT ![data.a] = "held"]
                          ELSE d.mem.bufst
              /\ blocks' = d.mem.blocks
              /\ hcall' = [NoHCall EXCEPT !.op = "event_set_data", !.h = h,
                                          !.arg = <<data, data_len, destroy_cb>>,
                                          !.trace = d.trace]
  /\ UNCHANGED <<objs, stale, metaVars>>

\* nns_edge_event_get_type (event_h, event), event given
EventGetType(h) ==
  /\ \E magic \in EventMagicRead(h) :
       IF ~NNS_EDGE_MAGIC_IS_VALID(h, magic)
       THEN hcall' = [NoHCall EXCEPT !.op = "event_get_type", !.h = h,
                                     !.ret = NNS_EDGE_ERROR_INVALID_PARAMETER]
       ELSE hcall' = [NoHCall EXCEPT !.op = "event_get_type", !.h = h,
                                     !.out = <<events[h].event>>]
  /\ UNCHANGED <<events, objs, bufst, blocks, stale, metaVars>>

\* nns_edge_event_parse_new_data (event_h, data_h), data_h given
EventParseNewData(h, oom) ==
  /\ \E magic \in EventMagicRead(h) :
       IF \/ ~NNS_EDGE_MAGIC_IS_VALID(h, magic)
          \/ events[h].event # NNS_EDGE_EVENT_NEW_DATA_RECEIVED
       THEN /\ hcall' = [NoHCall EXCEPT !.op = "event_parse_new_data", !.h = h,
                                        !.ret = NNS_EDGE_ERROR_INVALID_PARAMETER]
            /\ UNCHANGED <<objs, blocks>>
       ELSE \E ptr \in {events[h].data.data} :
            \E pmagic \in PayloadMagicRead(ptr) :
            \E r \in {nns_edge_data_copy(ptr.a, ptr # NULL /\ pmagic = NNS_EDGE_MAGIC,
                                         TRUE, oom)} :
              /\ r.enabled
              /\ objs' = r.objs
              /\ blocks' = r.blocks
              /\ hcall' = [NoHCall EXCEPT !.op = "event_parse_new_data", !.h = h,
                                          !.ret = r.ret, !.out = r.out, !.oom = r.oom]
  /\ UNCHANGED <<events, bufst, stale, metaVars>>

\* nns_edge_event_parse_capability (event_h, capability), capability given
EventParseCapability(h, oom) ==
  /\ \E magic \in EventMagicRead(h) :
       IF \/ ~NNS_EDGE_MAGIC_IS_VALID(h, magic)
          \/ events[h].event # NNS_EDGE_EVENT_CAPABILITY
       THEN hcall' = [NoHCall EXCEPT !.op = "event_parse_capability", !.h = h,
                                     !.ret = NNS_EDGE_ERROR_INVALID_PARAMETER]
       ELSE \E r \in {nns_edge_strdup(events[h].data.data, oom, 0)} :
              hcall' = [NoHCall EXCEPT !.op = "event_parse_capability", !.h = h,
                                       !.out = <<r.present, r.str>>,
                                       !.oom = oom \cap (1..r.n)]
  /\ UNCHANGED <<events, objs, bufst, blocks, stale, metaVars>>

\* The kinds a caller passes to nns_edge_event_create.
EventKinds == (NNS_EDGE_EVENT_UNKNOWN - 1)..NNS_EDGE_EVENT_CALLBACK_RELEASED

\* What a caller passes to nns_edge_event_set_data.
EventSetInputs ==
  { [data |-> BufPtr(1), data_len |-> Len(BufBytes[1]), destroy_cb |-> "user_cb"],
    [data |-> BufPtr(2), data_len |-> Len(BufBytes[2]), destroy_cb |-> "user_cb"],
    [data |-> DataPtr(1), data_len |-> 1, destroy_cb |-> "NULL"],
    [data |-> NULL, data_len |-> 1, destroy_cb |-> "NULL"],
    [data |-> BufPtr(2), data_len |-> 0, destroy_cb |-> "user_cb"] }

EventNext ==
  \/ \E event \in EventKinds, oom \in OomSets(1) : EventCreate(event, TRUE, oom)
  \/ EventCreate(NNS_EDGE_EVENT_CAPABILITY, FALSE, {})
  \/ \E h \in EventHandles : EventDestroy(h)
  \/ \E h \in EventHandles, in \in EventSetInputs :
       EventSetData(h, in.data, in.data_len, in.destroy_cb)
  \/ \E h \in EventHandles : EventGetType(h)
  \/ \E h \in EventHandles, oom \in OomSets(1) : EventParseNewData(h, oom)
  \/ \E h \in EventHandles, oom \in OomSets(1) : EventParseCapability(h, oom)
  \/ DataCreate(TRUE, {})

SpecEvent == Init /\ [][EventNext]_vars

(***************************************************************************)
(* SpecGuard: one call of any operation, on handles that are NULL,         *)
(* destroyed or live, from a state earlier calls have left.                *)
(***************************************************************************)
\* nns_edge_data_is_valid (data_h)
DataIsValid(h) ==
  /\ \E magic \in MagicRead(h) :
       hcall' = [NoHCall EXCEPT !.op = "data_is_valid", !.h = h,
                   !.ret = IF NNS_EDGE_MAGIC_IS_VALID(h, magic) THEN NNS_EDGE_ERROR_NONE
                           ELSE NNS_EDGE_ERROR_INVALID_PARAMETER]
  /\ UNCHANGED <<objs, bufst, blocks, stale, metaVars, evVars>>

\* The data object left by create, add of buffer 1 with its callback, add of
\* buffer 2 without one, and set_info ("a", "x").
GuardData ==
  [NewData EXCEPT
     !.num = 2,
     !.data = <<[data |-> BufPtr(1), data_len |-> Len(BufBytes[1]), destroy_cb |-> "user_cb"],
                [data |-> BufPtr(2), data_len |-> Len(BufBytes[2]), destroy_cb |-> "NULL"]>>,
     !.metadata = nns_edge_metadata_set(nns_edge_metadata_init, <<97>>, <<120>>, {}, 0).meta]

\* The event left by create (event) and set_data: of the data object, lent,
\* or of buffer 2 with its callback.
GuardEvent(event, payload) ==
  [NewEvent(event) EXCEPT !.data =
     IF payload = "data"
     THEN [data |-> DataPtr(1), data_len |-> 1, destroy_cb |-> "NULL"]
     ELSE [data |-> BufPtr(2), data_len |-> Len(BufBytes[2]), destroy_cb |-> "user_cb"]]

\* The data object (d) and the event (e): never created, destroyed, live.
GuardState(d, e, event) ==
  /\ objs = [a \in DataAddrs |->
               IF a = 1 /\ d = "live" THEN GuardData
               ELSE IF a = 1 /\ d = "freed" THEN Released("freed")
               ELSE Released("unmapped")]
  /\ stale = IF d = "freed" THEN {1} ELSE {}
  /\ blocks = [b \in BlockAddrs |-> [st |-> "free", bytes |-> <<>>]]
  /\ events = [a \in EventAddrs |->
                 IF e = "live"
                 THEN GuardEvent(event, IF d = "live" THEN "data" ELSE "buf")
                 ELSE ReleasedEvent(e)]
  /\ bufst = [p \in UserBufs |->
                IF p = 1
                THEN (IF d = "live" THEN "held"
                      ELSE IF d = "freed" THEN "released" ELSE "caller")
                ELSE (IF e = "live" /\ d # "live" THEN "held" ELSE "caller")]

GuardInit ==
  /\ store = [s \in StoreIds |-> nns_edge_metadata_init]
  /\ call = NoCall
  /\ heapLive = 0
  /\ hcall = NoHCall
  /\ \E d \in {"unmapped", "freed", "live"}, e \in {"unmapped", "freed", "live"},
        event \in {NNS_EDGE_EVENT_CAPABILITY, NNS_EDGE_EVENT_NEW_DATA_RECEIVED} :
       GuardState(d, e, event)

\* No call has been made yet.
Once == hcall.op = "none"

GuardNext ==
  \/ Once /\ \E oom \in OomSets(1) : DataCreate(TRUE, oom)
  \/ Once /\ \E h \in Handles : DataDestroy(h)
  \/ Once /\ \E h \in Handles, oom \in OomSets(NNS_EDGE_DATA_LIMIT + 4) :
               DataCopy(h, TRUE, oom)
  \/ Once /\ \E h \in Handles, in \in AddInputs :
               DataAdd(h, in.data, in.data_len, in.destroy_cb)
  \/ Once /\ \E h \in Handles, index \in 0..NNS_EDGE_DATA_LIMIT : DataGet(h, index)
  \/ Once /\ \E h \in Handles : DataGetCount(h)
  \/ Once /\ \E h \in Handles, key \in InfoKeys, value \in InfoValues,
                oom \in OomSets(3) : DataSetInfo(h, key, value, oom)
  \/ Once /\ \E h \in Handles, key \in InfoKeys : DataGetInfo(h, key, {})
  \/ Once /\ \E h \in Handles : DataSerializeMeta(h, {})
  \/ Once /\ \E h \in Handles, data \in InfoBlobs : DataDeserializeMeta(h, data, {})
  \/ Once /\ \E h \in Handles : DataIsValid(h)
  \/ Once /\ \E event \in EventKinds, oom \in OomSets(1) : EventCreate(event, TRUE, oom)
  \/ Once /\ \E h \in EventHandles : EventDestroy(h)
  \/ Once /\ \E h \in EventHandles, in \in EventSetInputs :
               EventSetData(h, in.data, in.data_len, in.destroy_cb)
  \/ Once /\ \E h \in EventHandles : EventGetType(h)
  \/ Once /\ \E h \in EventHandles, oom \in OomSets(1) : EventParseNewData(h, oom)
  \/ Once /\ \E h \in EventHandles, oom \in OomSets(1) : EventParseCapability(h, oom)

SpecGuard == GuardInit /\ [][GuardNext]_vars

(***************************************************************************)
(* Properties of the metadata list.                                        *)
(***************************************************************************)
\* Some node of the list has a key equal to key but for the case of letters.
HasKey(meta, key) == \E i \in 1..Len(meta.list) : StrCaseEq(meta.list[i].key, key)

\* The key/value pairs of a list, whatever their order.
PairsOf(meta) == {<<meta.list[i].key, meta.list[i].value>> : i \in 1..Len(meta.list)}

(* C1: after a successful set (key, value), get returns value for every    *)
(* spelling k of key that differs only in the case of letters; a set on a  *)
(* key the list already holds (in any case) leaves the number of pairs     *)
(* unchanged and a set on a new key adds one, so that two sets of the same *)
(* key in different cases on an empty list leave one pair.                 *)
C1_SetThenGet ==
  [][(call'.op = "set" /\ call'.ret = NNS_EDGE_ERROR_NONE) =>
       /\ \A k \in ValidKeys :
            StrCaseEq(k, call'.key) =>
              LET g == nns_edge_metadata_get(store'.dest, k, TRUE, {}, 0)
              IN g.ret = NNS_EDGE_ERROR_NONE /\ g.value = call'.value
       /\ HasKey(store.dest, call'.key) =>
            /\ store'.dest.list_len = store.dest.list_len
            /\ Len(store'.dest.list) = Len(store.dest.list)
       /\ ~HasKey(store.dest, call'.key) =>
            /\ store'.dest.list_len = store.dest.list_len + 1
            /\ Len(store'.dest.list) = Len(store.dest.list) + 1
       /\ (store.dest.list_len = 1 /\ HasKey(store.dest, call'.key)) =>
            store'.dest.list_len = 1]_vars

\* set ("A", "yy") has replaced the value of the pair stored under "a".
C1_Witness ==
  /\ call.op = "set" /\ call.ret = NNS_EDGE_ERROR_NONE
  /\ call.key = <<65>> /\ call.value = <<121, 121>>
  /\ store.dest = [list |-> <<[key |-> <<97>>, value |-> <<121, 121>>]>>, list_len |-> 1]

(* C2: a buffer that is the serialized form of a list (src) built by set,  *)
(* deserialized into a list (dest) with every allocation succeeding, is    *)
(* accepted, and get on dest then returns, for every key of src, the value *)
(* src holds for it.                                                       *)
C2_RoundTrip ==
  LET z == nns_edge_metadata_serialize(store.src, TRUE, {}, 0) IN
  (/\ call.op = "deserialize"
   /\ call.oom = {}
   /\ call.data_len = z.data_len
   /\ Prefix(call.mem, call.data_len) = z.data) =>
     /\ store.src.list_len > 0 => call.ret = NNS_EDGE_ERROR_NONE
     /\ \A i \in 1..Len(store.src.list) :
          LET g == nns_edge_metadata_get(store.dest, store.src.list[i].key, TRUE, {}, 0)
          IN g.ret = NNS_EDGE_ERROR_NONE /\ g.value = store.src.list[i].value

\* The serialized form of a list of two pairs has been deserialized.
C2_Witness ==
  /\ call.op = "deserialize" /\ call.oom = {} /\ call.ret = NNS_EDGE_ERROR_NONE
  /\ Len(store.src.list) = 2
  /\ call.data_len = nns_edge_metadata_serialize(store.src, TRUE, {}, 0).data_len
  /\ Prefix(call.mem, call.data_len) = nns_edge_metadata_serialize(store.src, TRUE, {}, 0).data
  /\ PairsOf(store.dest) = PairsOf(store.src)

(* C3: deserialize reads no byte at an offset at or past the length it was *)
(* given, and ends with success or with an error code.                     *)
C3_ReadsWithinLength ==
  call.op = "deserialize" =>
    /\ call.last < call.data_len
    /\ call.ret \in {NNS_EDGE_ERROR_NONE, NNS_EDGE_ERROR_INVALID_PARAMETER,
                     NNS_EDGE_ERROR_OUT_OF_MEMORY}

\* C16: set fails with INVALID_PARAMETER when the key or the value is NULL or
\* empty, and with OUT_OF_MEMORY when an allocation it makes fails (the node,
\* the copy of the key, the copy of the value, the copy of a replacing value);
\* a failing set leaves the list as it was and leaves nothing allocated.
C16_SetUnchangedOnError ==
  [][call'.op = "set" =>
       /\ (~STR_IS_VALID(call'.key) \/ ~STR_IS_VALID(call'.value)) =>
            call'.ret = NNS_EDGE_ERROR_INVALID_PARAMETER
       /\ (STR_IS_VALID(call'.key) /\ STR_IS_VALID(call'.value) /\ call'.oom # {}) =>
            call'.ret = NNS_EDGE_ERROR_OUT_OF_MEMORY
       /\ call'.ret # NNS_EDGE_ERROR_NONE =>
            /\ store' = store
            /\ heapLive' = heapLive]_vars

\* C16 witness: on a list of one pair, a set of a new key failed because the
\* copy of its value could not be allocated.
C16_Witness ==
  /\ call.op = "set" /\ call.ret = NNS_EDGE_ERROR_OUT_OF_MEMORY
  /\ call.oom = {3}
  /\ store.dest.list_len = 1
  /\ ~HasKey(store.dest, call.key)

\* The list that set builds from the empty one with the first k pairs of sets,
\* every allocation succeeding.
RECURSIVE SetAll(_, _)
SetAll(sets, k) ==
  IF k = 0 THEN nns_edge_metadata_init
  ELSE nns_edge_metadata_set(SetAll(sets, k - 1), sets[k][1], sets[k][2], {}, 0).meta

\* C14: a deserialize on no or empty input fails with INVALID_PARAMETER; a
\* successful one leaves in the list exactly what set builds from the empty
\* list with the pairs decoded from the data_len bytes given, nothing of what
\* the list held before; when a set fails, its error (INVALID_PARAMETER for an
\* empty key or value, OUT_OF_MEMORY for a failed allocation) is returned and
\* the list is empty.
C14_DeserializeAllOrNothing ==
  call.op = "deserialize" =>
    /\ call.data_len <= 0 => call.ret = NNS_EDGE_ERROR_INVALID_PARAMETER
    /\ call.ret = NNS_EDGE_ERROR_NONE =>
         /\ store.dest = SetAll(call.sets, Len(call.sets))
         /\ call.last < call.data_len
    /\ (call.data_len > 0 /\ call.ret \in {NNS_EDGE_ERROR_INVALID_PARAMETER,
                                            NNS_EDGE_ERROR_OUT_OF_MEMORY}) =>
         /\ store.dest = nns_edge_metadata_init
         /\ call.sets # <<>>
         /\ LET p == call.sets[Len(call.sets)] IN
              IF p[1] = <<>> \/ p[2] = <<>>
              THEN call.ret = NNS_EDGE_ERROR_INVALID_PARAMETER
              ELSE call.ret = NNS_EDGE_ERROR_OUT_OF_MEMORY /\ call.oom # {}

\* C15: when the buffer is a count c followed by the pairs of a list of at
\* least c pairs, every allocation succeeding, deserialize hands the first c
\* pairs to set, in order, and no other, and succeeds.
C15_DeclaredCount ==
  (/\ call.op = "deserialize"
   /\ call.oom = {}
   /\ store.src.list_len > 0
   /\ call.data_len = SizeofUInt + SerializedTotal(store.src.list, 1)
   /\ Prefix(call.mem, call.data_len)
        = StoreUInt(LoadUInt(call.mem)) \o SerializedPairs(store.src.list, 1)
   /\ LoadUInt(call.mem) <= Len(store.src.list)) =>
     /\ call.ret = NNS_EDGE_ERROR_NONE
     /\ call.sets = [i \in 1..LoadUInt(call.mem) |->
                       <<store.src.list[i].key, store.src.list[i].value>>]

\* list_len is the number of nodes, no key and no value is empty, and no two
\* keys are equal when the case of letters is ignored.
WellFormed(meta) ==
  /\ meta.list_len = Len(meta.list)
  /\ \A i \in 1..Len(meta.list) :
       /\ STR_IS_VALID(meta.list[i].key)
       /\ STR_IS_VALID(meta.list[i].value)
       /\ \A j \in 1..Len(meta.list) :
            i # j => ~StrCaseEq(meta.list[i].key, meta.list[j].key)

\* C20: after every call of init, set, free, copy and deserialize, failed or
\* not, each list has list_len nodes, no empty key or value, and keys that
\* differ pairwise when the case of letters is ignored.
C20_StoreWellFormed == \A id \in StoreIds : WellFormed(store[id])

\* C20 witness: after sets, a copy and more calls, a set with the key "A" has
\* replaced the value of the key "a" in a list of two pairs, the other list
\* holding two pairs as well.
C20_Witness ==
  /\ call.op = "set" /\ call.ret = NNS_EDGE_ERROR_NONE
  /\ call.key = <<65>>
  /\ Len(store.dest.list) = 2 /\ Len(store.src.list) = 2
  /\ \E i \in 1..2 : store.dest.list[i] = [key |-> <<97>>, value |-> call.value]
  /\ store.src # store.dest

(***************************************************************************)
(* Properties of data handles.                                             *)
(***************************************************************************)
\* C4: a destroy on a handle that a destroy has succeeded on before fails with
\* INVALID_PARAMETER, calls no destroy callback and releases nothing.
C4_DestroyTwiceFails ==
  [][(hcall'.op = "data_destroy" /\ hcall'.h \in stale) =>
       /\ hcall'.ret = NNS_EDGE_ERROR_INVALID_PARAMETER
       /\ hcall'.trace = <<>>
       /\ objs' = objs /\ bufst' = bufst /\ blocks' = blocks]_vars

\* What a caller may pass as the buffer of an entry.
ValidBuffer(arg) == arg[1] # NULL /\ arg[2] > 0

\* C5: a live data object has between 0 and NNS_EDGE_DATA_LIMIT entries; a
\* valid add below the limit succeeds and adds one entry; an add at the limit
\* fails with INVALID_PARAMETER and leaves the object as it was.
C5_CapacityBound ==
  /\ [](\A a \in DataAddrs : objs[a].st = "live" =>
          /\ objs[a].num \in 0..NNS_EDGE_DATA_LIMIT
          /\ Len(objs[a].data) = objs[a].num)
  /\ [][(hcall'.op = "data_add" /\ hcall'.h # 0 /\ objs[hcall'.h].st = "live") =>
          /\ (objs[hcall'.h].num < NNS_EDGE_DATA_LIMIT /\ ValidBuffer(hcall'.arg)) =>
                /\ hcall'.ret = NNS_EDGE_ERROR_NONE
                /\ objs'[hcall'.h].num = objs[hcall'.h].num + 1
          /\ objs[hcall'.h].num = NNS_EDGE_DATA_LIMIT =>
                /\ hcall'.ret = NNS_EDGE_ERROR_INVALID_PARAMETER
                /\ objs' = objs]_vars

\* C5 witness: a valid buffer was refused by a live object that is full.
C5_Witness ==
  /\ hcall.op = "data_add" /\ hcall.h # 0
  /\ ValidBuffer(hcall.arg)
  /\ hcall.ret = NNS_EDGE_ERROR_INVALID_PARAMETER
  /\ objs[hcall.h].st = "live"
  /\ objs[hcall.h].num = NNS_EDGE_DATA_LIMIT

\* The entries of live objects that hold buffer p with a destroy callback.
Holders(p, os) ==
  {e \in DataAddrs \X (1..(NNS_EDGE_DATA_LIMIT + 1)) :
     /\ os[e[1]].st = "live"
     /\ e[2] <= Len(os[e[1]].data)
     /\ os[e[1]].data[e[2]].data = BufPtr(p)
     /\ os[e[1]].data[e[2]].destroy_cb # "NULL"}

\* The callbacks a destroy of the entries data is to make, in order.
RECURSIVE EntryCallbacks(_, _)
EntryCallbacks(data, i) ==
  IF i > Len(data) THEN <<>>
  ELSE (IF data[i].destroy_cb # "NULL"
        THEN <<[ev |-> data[i].destroy_cb, ptr |-> data[i].data]>>
        ELSE <<>>) \o EntryCallbacks(data, i + 1)

IsCallback(e) == e.ev \in {"user_cb", "nns_edge_free"}

\* C6: the destroy callback given with a buffer is called exactly once, by the
\* destroy of the object that holds it and with the stored pointer; no other
\* call releases a buffer; a buffer given without a callback is never released.
C6_BufferOwnership ==
  /\ [](/\ \A p \in UserBufs :
             /\ bufst[p] # "double"
             /\ bufst[p] = "held" <=> Cardinality(Holders(p, objs)) = 1
             /\ bufst[p] # "held" => Holders(p, objs) = {}
        /\ \A b \in BlockAddrs : blocks[b].st # "corrupt")
  /\ [][/\ (hcall'.op = "data_destroy" /\ hcall'.ret = NNS_EDGE_ERROR_NONE) =>
             /\ SelectSeq(hcall'.trace, IsCallback)
                  = EntryCallbacks(SubSeq(objs[hcall'.h].data, 1, objs[hcall'.h].num), 1)
             /\ \A p \in UserBufs :
                  bufst'[p] = IF <<hcall'.h>> \in {<<e[1]>> : e \in Holders(p, objs)}
                              THEN "released" ELSE bufst[p]
        /\ ~(hcall'.op = "data_destroy" /\ hcall'.ret = NNS_EDGE_ERROR_NONE) =>
             /\ hcall'.trace = <<>>
             /\ \A p \in UserBufs : bufst'[p] = "released" <=> bufst[p] = "released"
             /\ \A b \in BlockAddrs : blocks[b].st = "live" => blocks'[b] = blocks[b]]_vars

\* C6 witness: a destroy has called the callback of the buffer handed over to
\* its object, and no other callback.
C6_Witness ==
  /\ hcall.op = "data_destroy" /\ hcall.ret = NNS_EDGE_ERROR_NONE
  /\ SelectSeq(hcall.trace, IsCallback) = <<[ev |-> "user_cb", ptr |-> BufPtr(1)]>>
  /\ bufst[1] = "released"
  /\ bufst[2] = "caller"

\* C7: a copy that succeeds gives an object with as many entries, each with the
\* length and the bytes of the source's in a block of its own that was not in
\* use, released by nns_edge_free, and with the source's pairs of information.
C7_CopyIndependence ==
  [][(hcall'.op = "data_copy" /\ hcall'.ret = NNS_EDGE_ERROR_NONE) =>
       \E src \in {objs[hcall'.h]}, dst \in {objs'[hcall'.out[1]]} :
         /\ dst.num = src.num
         /\ \A i \in 1..src.num :
              /\ dst.data[i].data_len = src.data[i].data_len
              /\ dst.data[i].destroy_cb = "nns_edge_free"
              /\ dst.data[i].data.kind = "blk"
              /\ dst.data[i].data # src.data[i].data
              /\ blocks[dst.data[i].data.a].st = "free"
              /\ BytesAt(dst.data[i].data, blocks')
                   = Prefix(BytesAt(src.data[i].data, blocks), src.data[i].data_len)
              /\ \A j \in 1..src.num : j # i => dst.data[j].data # dst.data[i].data
         /\ PairsOf(dst.metadata) = PairsOf(src.metadata)
         /\ objs'[hcall'.h] = src]_vars

\* C8: a copy in which an allocation fails returns OUT_OF_MEMORY, hands no
\* object to the caller and leaves every object and every block as it was.
C8_CopyAtomicOnFailure ==
  [][(hcall'.op = "data_copy" /\ hcall'.oom # {}) =>
       /\ hcall'.ret = NNS_EDGE_ERROR_OUT_OF_MEMORY
       /\ hcall'.out = <<>>
       /\ objs' = objs
       /\ blocks' = blocks]_vars

\* C18: a successful add stores the pointer, the length and the callback it
\* was given at index num and adds one to num, leaves the earlier entries and
\* every block of bytes as they were; no other call changes the entries of a
\* live object; get (index) on a live object returns the pointer and the
\* length stored at index when index < num, and fails with INVALID_PARAMETER
\* when index >= num.
C18_AppendVerbatim ==
  [][/\ (hcall'.op = "data_add" /\ hcall'.ret = NNS_EDGE_ERROR_NONE) =>
          /\ objs[hcall'.h].st = "live"
          /\ objs'[hcall'.h].num = objs[hcall'.h].num + 1
          /\ Len(objs'[hcall'.h].data) = objs'[hcall'.h].num
          /\ objs'[hcall'.h].data[objs'[hcall'.h].num]
               = [data |-> hcall'.arg[1], data_len |-> hcall'.arg[2],
                  destroy_cb |-> hcall'.arg[3]]
          /\ \A i \in 1..objs[hcall'.h].num :
               objs'[hcall'.h].data[i] = objs[hcall'.h].data[i]
          /\ blocks' = blocks
     /\ \A a \in DataAddrs :
          (/\ objs[a].st = "live" /\ objs'[a].st = "live"
           /\ ~(hcall'.op = "data_add" /\ hcall'.h = a
                /\ hcall'.ret = NNS_EDGE_ERROR_NONE)) =>
             /\ objs'[a].num = objs[a].num
             /\ objs'[a].data = objs[a].data
     /\ (hcall'.op = "data_get" /\ hcall'.h # 0 /\ objs[hcall'.h].st = "live") =>
          IF hcall'.arg[1] < objs[hcall'.h].num
          THEN /\ hcall'.ret = NNS_EDGE_ERROR_NONE
               /\ hcall'.out = <<objs[hcall'.h].data[hcall'.arg[1] + 1].data,
                                 objs[hcall'.h].data[hcall'.arg[1] + 1].data_len>>
          ELSE /\ hcall'.ret = NNS_EDGE_ERROR_INVALID_PARAMETER
               /\ hcall'.out = <<>>]_vars

\* C18 witness: after the adds of buffer 2 and then of buffer 1, get (1)
\* returned buffer 1 and its length.
C18_Witness ==
  /\ hcall.op = "data_get" /\ hcall.ret = NNS_EDGE_ERROR_NONE
  /\ hcall.arg = <<1>>
  /\ objs[hcall.h].num = 2
  /\ objs[hcall.h].data[1].data = BufPtr(2)
  /\ hcall.out = <<BufPtr(1), Len(BufBytes[1])>>

\* C21: in every live data object, every entry below num has a pointer that
\* is not NULL and a length above 0.
C21_EntriesPresent ==
  \A a \in DataAddrs :
    objs[a].st = "live" =>
      \A i \in 1..objs[a].num :
        /\ i <= Len(objs[a].data)
        /\ objs[a].data[i].data # NULL
        /\ objs[a].data[i].data_len > 0

(***************************************************************************)
(* Properties of events.                                                   *)
(***************************************************************************)
\* C11: a create with the kind unknown or a kind below it fails with
\* INVALID_PARAMETER and creates no event; the kind of a live event does not
\* change; parse_new_data on an event of another kind than NEW_DATA_RECEIVED,
\* and parse_capability on an event of another kind than CAPABILITY, fail with
\* INVALID_PARAMETER and change nothing, whatever the payload.
C11_EventKindGating ==
  [][/\ (hcall'.op = "event_create" /\ hcall'.arg[1] <= NNS_EDGE_EVENT_UNKNOWN) =>
          /\ hcall'.ret = NNS_EDGE_ERROR_INVALID_PARAMETER
          /\ hcall'.out = <<>>
          /\ events' = events
     /\ (hcall'.op = "event_create" /\ hcall'.ret = NNS_EDGE_ERROR_NONE) =>
          /\ events[hcall'.out[1]].st # "live"
          /\ events'[hcall'.out[1]].st = "live"
          /\ events'[hcall'.out[1]].event = hcall'.arg[1]
          /\ hcall'.arg[1] > NNS_EDGE_EVENT_UNKNOWN
     /\ \A a \in EventAddrs :
          (events[a].st = "live" /\ events'[a].st = "live") =>
             events'[a].event = events[a].event
     /\ (/\ hcall'.op = "event_parse_new_data" /\ hcall'.h # 0
         /\ events[hcall'.h].st = "live"
         /\ events[hcall'.h].event # NNS_EDGE_EVENT_NEW_DATA_RECEIVED) =>
          /\ hcall'.ret = NNS_EDGE_ERROR_INVALID_PARAMETER
          /\ hcall'.out = <<>>
          /\ UNCHANGED <<events, objs, bufst, blocks>>
     /\ (/\ hcall'.op = "event_parse_capability" /\ hcall'.h # 0
         /\ events[hcall'.h].st = "live"
         /\ events[hcall'.h].event # NNS_EDGE_EVENT_CAPABILITY) =>
          /\ hcall'.ret = NNS_EDGE_ERROR_INVALID_PARAMETER
          /\ hcall'.out = <<>>
          /\ UNCHANGED <<events, objs, bufst, blocks>>]_vars

\* C11 witness: parse_capability was refused on a live NEW_DATA_RECEIVED event
\* that holds a payload.
C11_Witness ==
  /\ hcall.op = "event_parse_capability" /\ hcall.h # 0
  /\ hcall.ret = NNS_EDGE_ERROR_INVALID_PARAMETER
  /\ events[hcall.h].st = "live"
  /\ events[hcall.h].event = NNS_EDGE_EVENT_NEW_DATA_RECEIVED
  /\ events[hcall.h].data.data # NULL

\* The callback a release of payload is to make.
PayloadCallbacks(payload) ==
  IF payload.destroy_cb # "NULL"
  THEN <<[ev |-> payload.destroy_cb, ptr |-> payload.data]>>
  ELSE <<>>

\* The live events that hold buffer p with a destroy callback.
EventHolders(p, evs) ==
  {a \in EventAddrs : /\ evs[a].st = "live"
                      /\ evs[a].data.data = BufPtr(p)
                      /\ evs[a].data.destroy_cb # "NULL"}

\* C12: the destroy callback given with a payload is called exactly once with
\* the payload's pointer: by the successful set_data that replaces the payload,
\* or by the destroy of the event that holds it; a set_data that fails calls no
\* callback and leaves the payload; no other call releases a payload.
C12_PayloadOwnership ==
  /\ [](\A p \in UserBufs :
          /\ bufst[p] # "double"
          /\ bufst[p] = "held" <=> EventHolders(p, events) # {})
  /\ [][/\ (hcall'.op = "event_set_data" /\ hcall'.ret = NNS_EDGE_ERROR_NONE) =>
             /\ hcall'.trace = PayloadCallbacks(events[hcall'.h].data)
             /\ events'[hcall'.h].data = [data |-> hcall'.arg[1],
                                          data_len |-> hcall'.arg[2],
                                          destroy_cb |-> hcall'.arg[3]]
             /\ \A p \in UserBufs :
                  bufst'[p] = IF hcall'.arg[1] = BufPtr(p) /\ hcall'.arg[3] # "NULL"
                              THEN "held"
                              ELSE IF hcall'.h \in EventHolders(p, events)
                              THEN "released"
                              ELSE bufst[p]
        /\ (hcall'.op = "event_set_data" /\ hcall'.ret # NNS_EDGE_ERROR_NONE) =>
             /\ hcall'.trace = <<>>
             /\ events' = events
             /\ bufst' = bufst
        /\ (hcall'.op = "event_destroy" /\ hcall'.ret = NNS_EDGE_ERROR_NONE) =>
             /\ SelectSeq(hcall'.trace, IsCallback)
                  = PayloadCallbacks(events[hcall'.h].data)
             /\ \A p \in UserBufs :
                  bufst'[p] = IF hcall'.h \in EventHolders(p, events)
                              THEN "released" ELSE bufst[p]
        /\ ~(hcall'.op \in {"event_set_data", "event_destroy"}
             /\ hcall'.ret = NNS_EDGE_ERROR_NONE) =>
             /\ hcall'.trace = <<>>
             /\ bufst' = bufst]_vars

\* C12 witness: a set_data has replaced a payload and called its callback, and
\* the event holds the new payload.
C12_Witness ==
  /\ hcall.op = "event_set_data" /\ hcall.ret = NNS_EDGE_ERROR_NONE
  /\ hcall.trace = <<[ev |-> "user_cb", ptr |-> BufPtr(1)]>>
  /\ bufst[1] = "released"
  /\ bufst[2] = "held"
  /\ events[hcall.h].data.data = BufPtr(2)

\* C19: parse_capability on a live CAPABILITY event returns NONE only with a
\* copy of the payload's string; when the event holds no payload, or when the
\* copy cannot be allocated, it returns an error.
C19_ParseCapabilityResult ==
  [][(/\ hcall'.op = "event_parse_capability" /\ hcall'.h # 0
      /\ events[hcall'.h].st = "live"
      /\ events[hcall'.h].event = NNS_EDGE_EVENT_CAPABILITY) =>
       IF events[hcall'.h].data.data = NULL \/ hcall'.oom # {}
       THEN hcall'.ret # NNS_EDGE_ERROR_NONE
       ELSE /\ hcall'.ret = NNS_EDGE_ERROR_NONE
            /\ hcall'.out = <<TRUE, BytesAt(events[hcall'.h].data.data, blocks)>>]_vars

\* The operations that take a data handle, and those that take an event handle.
DataOps == {"data_destroy", "data_is_valid", "data_copy", "data_add", "data_get",
            "data_get_count", "data_set_info", "data_get_info",
            "data_serialize_meta", "data_deserialize_meta"}
EventOps == {"event_destroy", "event_set_data", "event_get_type",
             "event_parse_new_data", "event_parse_capability"}

\* C13: an operation on a handle that is NULL or whose object is not live
\* (its magic is not the live one) fails with INVALID_PARAMETER, calls no
\* destroy callback, writes no output and changes no object, buffer or block.
C13_ValidityGuard ==
  [][(\/ /\ hcall'.op \in DataOps
         /\ (hcall'.h = 0 \/ objs[hcall'.h].st # "live")
      \/ /\ hcall'.op \in EventOps
         /\ (hcall'.h = 0 \/ events[hcall'.h].st # "live")) =>
       /\ hcall'.ret = NNS_EDGE_ERROR_INVALID_PARAMETER
       /\ hcall'.out = <<>>
       /\ hcall'.trace = <<>>
       /\ UNCHANGED <<objs, events, bufst, blocks, stale, store>>]_vars

\* C13 witness: a call on the handle of a destroyed object was refused.
C13_Witness ==
  /\ hcall.op \in {"data_add", "event_set_data"}
  /\ hcall.h # 0
  /\ hcall.arg[1] # NULL /\ hcall.arg[2] > 0
  /\ hcall.ret = NNS_EDGE_ERROR_INVALID_PARAMETER
  /\ IF hcall.op = "data_add" THEN objs[hcall.h].st = "freed"
     ELSE events[hcall.h].st = "freed"

\* The magic a call made at step k of a destroy reads in the object: the DEAD
\* written by an earlier step, or else the magic the object had.
MagicSeenAt(trace, k, magic) ==
  IF \E j \in 1..(k - 1) : trace[j].ev = "magic_dead" THEN NNS_EDGE_MAGIC_DEAD ELSE magic

\* C17: a successful destroy of a data object or of an event writes the DEAD
\* magic first, calls the destroy callbacks after it and releases the metadata
\* (data object) and the object last: at every callback and at every release
\* the object's magic is not the valid one, so a call on the handle made from
\* inside a callback is refused.
C17_DestroyOrdering ==
  [][(hcall'.op \in {"data_destroy", "event_destroy"}
      /\ hcall'.ret = NNS_EDGE_ERROR_NONE) =>
       LET t == hcall'.trace
           magic == IF hcall'.op = "data_destroy" THEN objs[hcall'.h].magic
                    ELSE events[hcall'.h].magic
       IN /\ magic = NNS_EDGE_MAGIC
          /\ t[1].ev = "magic_dead"
          /\ t[Len(t)].ev = "free"
          /\ hcall'.op = "data_destroy" => t[Len(t) - 1].ev = "metadata_free"
          /\ \A k \in 1..Len(t) :
               /\ t[k].ev # "magic_dead" =>
                    ~NNS_EDGE_MAGIC_IS_VALID(hcall'.h, MagicSeenAt(t, k, magic))
               /\ IsCallback(t[k]) =>
                    \A j \in 1..Len(t) : t[j].ev \in {"metadata_free", "free"} => k < j]_vars

\* C17 witness: a destroy of a data object has written DEAD, then called the
\* callback of its first entry, then released the metadata and the object.
C17_Witness ==
  /\ hcall.op = "data_destroy" /\ hcall.ret = NNS_EDGE_ERROR_NONE
  /\ hcall.trace = <<[ev |-> "magic_dead", ptr |-> NULL],
                     [ev |-> "user_cb", ptr |-> BufPtr(1)],
                     [ev |-> "metadata_free", ptr |-> NULL],
                     [ev |-> "free", ptr |-> NULL]>>

\* The operations that only read the object behind their handle.
ReadOnlyOps == {"data_get", "data_get_count", "data_get_info", "data_serialize_meta",
                "data_is_valid", "event_get_type", "event_parse_new_data",
                "event_parse_capability"}

\* C22: get, get_count, get_info, serialize_meta, is_valid, get_type,
\* parse_new_data and parse_capability, failing or not, call no destroy
\* callback and leave every event, every live data object, every buffer and
\* every live block as it was (parse_new_data alone makes a new object); an
\* add or a set_info that fails changes nothing either.
C22_ReadOnly ==
  [][/\ hcall'.op \in ReadOnlyOps =>
          /\ hcall'.trace = <<>>
          /\ events' = events
          /\ bufst' = bufst
          /\ \A a \in DataAddrs : objs[a].st = "live" => objs'[a] = objs[a]
          /\ \A b \in BlockAddrs : blocks[b].st = "live" => blocks'[b] = blocks[b]
          /\ hcall'.op # "event_parse_new_data" => (objs' = objs /\ blocks' = blocks)
     /\ (hcall'.op \in {"data_add", "data_set_info"}
         /\ hcall'.ret # NNS_EDGE_ERROR_NONE) =>
          /\ hcall'.trace = <<>>
          /\ UNCHANGED <<objs, events, bufst, blocks>>]_vars

\* C22 witness: parse_new_data has made a copy of the data object an event
\* holds, and that object is as it was.
C22_Witness ==
  /\ hcall.op = "event_parse_new_data" /\ hcall.ret = NNS_EDGE_ERROR_NONE
  /\ events[hcall.h].data.data = DataPtr(1)
  /\ objs[1] = GuardData
  /\ objs[2].st = "live" /\ objs[2].num = GuardData.num

(* C9: copy (dest, src) leaves src as it was; when it fails dest keeps its *)
(* pairs and every block allocated for the scratch list is released; when  *)
(* it succeeds the blocks of dest's old pairs are released and dest holds  *)
(* the pairs of src and no other.  It fails when an allocation it asks for *)
(* fails.                                                                  *)
C9_CopyAllOrNothing ==
  [][call'.op = "copy" =>
       /\ store'.src = store.src
       /\ call'.oom # {} <=> call'.ret = NNS_EDGE_ERROR_OUT_OF_MEMORY
       /\ call'.ret # NNS_EDGE_ERROR_NONE =>
            /\ store'.dest = store.dest
            /\ heapLive' = heapLive
       /\ call'.ret = NNS_EDGE_ERROR_NONE =>
            /\ PairsOf(store'.dest) = PairsOf(store.src)
            /\ Len(store'.dest.list) = Len(store.src.list)
            /\ store'.dest.list_len = store.src.list_len
            /\ heapLive' = 3 * (Len(store'.src.list) + Len(store'.dest.list))]_vars

\* A copy of two pairs failed at the second one and dest still holds its pair.
C9_Witness ==
  /\ call.op = "copy" /\ call.ret = NNS_EDGE_ERROR_OUT_OF_MEMORY
  /\ call.oom \cap {4, 5, 6} # {}
  /\ Len(store.src.list) = 2
  /\ Len(store.dest.list) = 1
  /\ heapLive = 9

\* The offset of the i-th pair in the serialized form of a list.
RECURSIVE PairOffset(_, _)
PairOffset(list, i) ==
  IF i = 1 THEN 4
  ELSE PairOffset(list, i - 1) + Len(list[i - 1].key) + Len(list[i - 1].value) + 2

(* C10: serialize, its allocation succeeding, leaves the list unchanged;   *)
(* on an empty list it succeeds with no buffer and length 0; on a list of  *)
(* n >= 1 pairs it succeeds with a buffer of 4 + the sum of                *)
(* (strlen (key) + strlen (value) + 2) bytes: the count n in 4 bytes, then *)
(* for every pair, in list order, its key, a NUL, its value and a NUL.     *)
C10_WireFormat ==
  [][(call'.op = "serialize" /\ call'.oom = {}) =>
       LET list == store.dest.list
           n == Len(list)
           mem == call'.mem
       IN
       /\ store' = store
       /\ call'.ret = NNS_EDGE_ERROR_NONE
       /\ n = 0 => call'.out = <<FALSE>> /\ call'.data_len = 0 /\ mem = <<>>
       /\ n >= 1 =>
            /\ call'.out = <<TRUE>>
            /\ call'.data_len = PairOffset(list, n + 1)
            /\ Len(mem) = call'.data_len
            /\ mem[1] + 256 * mem[2] + 65536 * mem[3] + 16777216 * mem[4] = n
            /\ \A i \in 1..n :
                 LET k == PairOffset(list, i)
                     v == k + Len(list[i].key) + 1
                 IN /\ \A j \in 1..Len(list[i].key) : mem[k + j] = list[i].key[j]
                    /\ mem[v] = 0
                    /\ \A j \in 1..Len(list[i].value) : mem[v + j] = list[i].value[j]
                    /\ mem[v + Len(list[i].value) + 1] = 0]_vars

\* A list of two pairs has been serialized into 4 + 4 + 5 bytes.
C10_Witness ==
  /\ call.op = "serialize" /\ call.ret = NNS_EDGE_ERROR_NONE
  /\ Len(store.dest.list) = 2
  /\ call.data_len = 13

=============================================================================
